---- MODULE Spec2Model ----
(***************************************************************************)
(* Model of src/Mechanical_joints.py: the class Joint, its class-level     *)
(* catalog JOINT_TYPES, the constructor with _update_torsors, the two      *)
(* printing operations, and the module-level script that builds the first  *)
(* joint.                                                                  *)
(*                                                                         *)
(* Python values are represented as follows.                               *)
(*   str        a sequence of one-character strings ("x" is <<"x">>,       *)
(*              "" is <<>>), so that str.lower() is computed per character *)
(*   None       the value None below (object-valued attributes)            *)
(*   K, T       functions over the Python indices 0..5                     *)
(*   array item an integer; NoneEntry stands for a None item               *)
(* Display-only text (french names, descriptions, labels) is kept as TLA+  *)
(* strings: the code only prints it.                                       *)
(***************************************************************************)
EXTENDS Integers, Sequences, FiniteSets, TLC

\* Number of Joint(...) calls made after the module-level one.
MaxJoints == 1

None == <<"None">>
NoneEntry == -1

--------------------------------------------------------------------------
\* str.lower(), restricted to the ASCII letters

UpperLetters ==
  <<"A","B","C","D","E","F","G","H","I","J","K","L","M",
    "N","O","P","Q","R","S","T","U","V","W","X","Y","Z">>

LowerLetters ==
  <<"a","b","c","d","e","f","g","h","i","j","k","l","m",
    "n","o","p","q","r","s","t","u","v","w","x","y","z">>

LowerChar(c) ==
  IF \E n \in 1..26 : UpperLetters[n] = c
  THEN LowerLetters[CHOOSE n \in 1..26 : UpperLetters[n] = c]
  ELSE c

\* A lower() that leaves the string as it is.
LowerUnchanged(s) == s

Lower(s) == [n \in 1..Len(s) |-> LowerChar(s[n])]

--------------------------------------------------------------------------
\* The catalog

Revolute   == <<"r","e","v","o","l","u","t","e">>
Prismatic  == <<"p","r","i","s","m","a","t","i","c">>
Fixed      == <<"f","i","x","e","d">>
FixedPoint == <<"f","i","x","e","d","_","p","o","i","n","t">>

\* dict iteration order (insertion order)
JointTypeKeys == <<Revolute, Prismatic, Fixed, FixedPoint>>

JointTypesLiteral ==
  [k \in {Revolute, Prismatic, Fixed, FixedPoint} |->
     IF k = Revolute THEN
       [french |-> "Pivot", axis_required |-> TRUE,
        description |-> "Rotation around a fixed axis"]
     ELSE IF k = Prismatic THEN
       [french |-> "Glissiere", axis_required |-> TRUE,
        description |-> "Translation along a fixed axis"]
     ELSE IF k = Fixed THEN
       [french |-> "Encastrement", axis_required |-> FALSE,
        description |-> "No relative motion"]
     ELSE
       [french |-> "Appui ponctuel", axis_required |-> FALSE,
        description |-> "Point contact without motion"]]

--------------------------------------------------------------------------
\* _update_torsors

AxisX == <<"x">>
AxisY == <<"y">>
AxisZ == <<"z">>

axis_index == [a \in {AxisX, AxisY, AxisZ} |->
                 IF a = AxisX THEN 0 ELSE IF a = AxisY THEN 1 ELSE 2]

\* An initial array that is all ones.
InitKOnes == [k \in 0..5 |-> 1]

InitK == [k \in 0..5 |-> 0]

\* The axis checks with the "is None" test left out: None then fails the
\* membership test.
AxisErrorNoNoneTest(axis) ==
  IF axis \notin DOMAIN axis_index THEN "InvalidAxis" ELSE "ok"

\* The two checks made on the axis of a type that requires one.
AxisError(axis) ==
  IF axis = None THEN "MissingAxis"
  ELSE IF axis \notin DOMAIN axis_index THEN "InvalidAxis"
  ELSE "ok"

\* revolute writing the translational entry
SetMotionRevoluteShifted(K, joint_type, idx) ==
  IF joint_type = Revolute THEN [K EXCEPT ![idx + 3] = 1]
  ELSE IF joint_type = Prismatic THEN [K EXCEPT ![idx + 3] = 1]
  ELSE K

\* prismatic writing the rotational entry
SetMotionPrismaticUnshifted(K, joint_type, idx) ==
  IF joint_type = Revolute THEN [K EXCEPT ![idx] = 1]
  ELSE IF joint_type = Prismatic THEN [K EXCEPT ![idx] = 1]
  ELSE K

SetMotion(K, joint_type, idx) ==
  IF joint_type = Revolute THEN [K EXCEPT ![idx] = 1]
  ELSE IF joint_type = Prismatic THEN [K EXCEPT ![idx + 3] = 1]
  ELSE K

\* the complement with its two outcomes exchanged
ComplementExchanged(v) ==
  IF v = NoneEntry THEN NoneEntry ELSE IF v = 0 THEN 0 ELSE 1

Complement(v) ==
  IF v = NoneEntry THEN NoneEntry ELSE IF v = 0 THEN 1 ELSE 0

\* self.K = K; self.T = np.array([...])
AssignTorsors(self, K) ==
  [self |-> [self EXCEPT !.K = K,
                         !.T = [k \in DOMAIN K |-> Complement(K[k])]],
   err  |-> "ok"]

\* a raise reached after self.K has already been assigned
RaiseAfterAssign(self, err) ==
  [self |-> [self EXCEPT !.K = InitK], err |-> err]

\* raise ValueError(...): the object is left as it was
Raise(self, err) == [self |-> self, err |-> err]

UpdateTorsors(self, types) ==
  LET K == InitK IN
  IF self.joint_type \notin DOMAIN types
  THEN Raise(self, "UnknownJointType")
  ELSE
    LET joint_info == types[self.joint_type] IN
    IF joint_info.axis_required
    THEN
      IF AxisError(self.axis) # "ok"
      THEN Raise(self, AxisError(self.axis))
      ELSE AssignTorsors(self,
             SetMotion(K, self.joint_type, axis_index[self.axis]))
    ELSE AssignTorsors(self, K)

\* Joint.__init__
JointInit(joint_type, axis, types) ==
  UpdateTorsors([joint_type |-> Lower(joint_type), axis |-> axis,
                 K |-> None, T |-> None], types)

--------------------------------------------------------------------------
\* Printing

kinematic_labels == <<"Omega_x", "Omega_y", "Omega_z", "V_x", "V_y", "V_z">>
static_labels    == <<"M_x", "M_y", "M_z", "F_x", "F_y", "F_z">>

\* if self.axis:
Truthy(v) == v # None /\ v # <<>>

\* zip(labels, array): array item n-1 goes with label n
Zip(labels, arr) == [n \in 1..Len(labels) |-> <<labels[n], arr[n - 1]>>]

PrintTorsorsLines(self) ==
  <<  <<"Mechanical joint type :", self.joint_type>>  >>
  \o (IF Truthy(self.axis) THEN << <<"Axis :", self.axis>> >> ELSE <<>>)
  \o << <<"Kinematic torsor (DDL):">> >>
  \o Zip(kinematic_labels, self.K)
  \o << <<"Static torsor (ideal):">> >>
  \o Zip(static_labels, self.T)

ListLines(types) ==
  << <<"Available mechanical joint types:">> >>
  \o [n \in 1..Len(JointTypeKeys) |->
        LET key == JointTypeKeys[n] info == types[key] IN
        <<key, info.french, info.description,
          IF info.axis_required THEN "axis required" ELSE "no axis">>]

--------------------------------------------------------------------------
\* Arguments tried

STeleport  == <<"t","e","l","e","p","o","r","t">>
SSpherical == <<"s","p","h","e","r","i","c","a","l">>
URevolute  == <<"R","E","V","O","L","U","T","E">>
CRevolute  == <<"R","e","v","o","l","u","t","e">>
UPrismatic == <<"P","R","I","S","M","A","T","I","C">>
CFixed     == <<"F","i","x","e","d">>
UFixedPoint == <<"F","I","X","E","D","_","P","O","I","N","T">>
MFixedPoint == <<"f","i","x","e","d","_","P","o","i","n","t">>

JointTypeArgs ==
  {Revolute, URevolute, CRevolute, Prismatic, UPrismatic, Fixed, CFixed,
   FixedPoint, UFixedPoint, MFixedPoint, STeleport, SSpherical, <<>>}

AxisArgs == {None, AxisX, AxisY, AxisZ, <<"w">>, <<"X">>, <<>>}

--------------------------------------------------------------------------
\* State

VARIABLES
  JOINT_TYPES,  \* the class attribute Joint.JOINT_TYPES
  joints,       \* joints[i]: the attributes of the i-th Joint object
  calls,        \* calls[i]: the arguments of the i-th Joint(...) call
  status,       \* "unborn", "ready", or the error the i-th call raised
  out           \* what the last print_torsors() or list() printed

vars == <<JOINT_TYPES, joints, calls, status, out>>

Slots == 0..MaxJoints

\* The code raises ValueError in all three cases; they differ by message:
\*   "Unknown joint type: ..."                    UnknownJointType
\*   "Axis must be specified for joint type ..."  MissingAxis
\*   "Axis must be 'x', 'y' or 'z'."              InvalidAxis
Errors == {"UnknownJointType", "MissingAxis", "InvalidAxis"}

Blank == [joint_type |-> None, axis |-> None, K |-> None, T |-> None]

StatusOf(err) == IF err = "ok" THEN "ready" ELSE err

\* The module-level script: joint = Joint("prismatic", axis="y");
\* joint.print_torsors(); joint.list()
ModuleJoint == JointInit(Prismatic, AxisY, JointTypesLiteral)

Init ==
  /\ JOINT_TYPES = JointTypesLiteral
  /\ joints = [i \in Slots |-> IF i = 0 THEN ModuleJoint.self ELSE Blank]
  /\ calls  = [i \in Slots |->
                 IF i = 0 THEN [joint_type |-> Prismatic, axis |-> AxisY]
                 ELSE [joint_type |-> None, axis |-> None]]
  /\ status = [i \in Slots |->
                 IF i = 0 THEN StatusOf(ModuleJoint.err) ELSE "unborn"]
  /\ out = ListLines(JointTypesLiteral)

\* A constructor whose array K is one object shared by all instances.
ConstructSharedK(i, joint_type, axis) ==
  /\ status[i] = "unborn"
  /\ LET r == JointInit(joint_type, axis, JOINT_TYPES) IN
       /\ joints' = [j \in Slots |->
                       IF j = i THEN r.self
                       ELSE IF status[j] = "ready" /\ r.err = "ok"
                            THEN [joints[j] EXCEPT !.K = r.self.K,
                                                   !.T = r.self.T]
                            ELSE joints[j]]
       /\ status' = [status EXCEPT ![i] = StatusOf(r.err)]
  /\ calls' = [calls EXCEPT ![i] = [joint_type |-> joint_type, axis |-> axis]]
  /\ UNCHANGED <<JOINT_TYPES, out>>

\* Joint(joint_type, axis)
Construct(i, joint_type, axis) ==
  /\ status[i] = "unborn"
  /\ LET r == JointInit(joint_type, axis, JOINT_TYPES) IN
       /\ joints' = [joints EXCEPT ![i] = r.self]
       /\ status' = [status EXCEPT ![i] = StatusOf(r.err)]
  /\ calls' = [calls EXCEPT ![i] = [joint_type |-> joint_type, axis |-> axis]]
  /\ UNCHANGED <<JOINT_TYPES, out>>

\* joints[i].print_torsors()
PrintTorsors(i) ==
  /\ status[i] = "ready"
  /\ out' = PrintTorsorsLines(joints[i])
  /\ UNCHANGED <<JOINT_TYPES, joints, calls, status>>

\* Joint.list()
List ==
  /\ out' = ListLines(JOINT_TYPES)
  /\ UNCHANGED <<JOINT_TYPES, joints, calls, status>>

Next ==
  \/ \E i \in Slots \ {0} : \E joint_type \in JointTypeArgs :
       \E axis \in AxisArgs : Construct(i, joint_type, axis)
  \/ \E i \in Slots : PrintTorsors(i)
  \/ List

Spec == Init /\ [][Next]_vars

--------------------------------------------------------------------------
\* Vocabulary of the properties.  A call names a catalog type when its
\* joint_type argument spells the key in any letter case; this is stated
\* letter by letter and does not use Lower.

SameLetter(c, k) ==
  \/ c = k
  \/ \E n \in 1..26 : LowerLetters[n] = k /\ UpperLetters[n] = c

Spells(s, key) ==
  /\ Len(s) = Len(key)
  /\ \A n \in 1..Len(key) : SameLetter(s[n], key[n])

NamesAxisType(s)   == Spells(s, Revolute) \/ Spells(s, Prismatic)
NamesNoAxisType(s) == Spells(s, Fixed) \/ Spells(s, FixedPoint)
NamesCatalogType(s) == NamesAxisType(s) \/ NamesNoAxisType(s)

Called(i) == status[i] # "unborn"
Ready(i)  == status[i] = "ready"

XYZ == {AxisX, AxisY, AxisZ}

RotIndex(a)   == CASE a = AxisX -> 0 [] a = AxisY -> 1 [] a = AxisZ -> 2
TransIndex(a) == CASE a = AxisX -> 3 [] a = AxisY -> 4 [] a = AxisZ -> 5

OneAt(p)  == [k \in 0..5 |-> IF k = p THEN 1 ELSE 0]
ZeroAt(p) == [k \in 0..5 |-> IF k = p THEN 0 ELSE 1]

\* C1: in every constructed joint each kinematic entry is 0 or 1, none is
\* None, and the static entry at the same index is 1 minus it.
C1_ComplementLaw ==
  \A i \in Slots : Ready(i) =>
    \A k \in 0..5 :
      /\ joints[i].K[k] \in {0, 1}
      /\ joints[i].T[k] \in {0, 1}
      /\ joints[i].T[k] = 1 - joints[i].K[k]

\* A joint built by a call after the module-level one, holding both a free
\* and a constrained coordinate.
C1_Witness ==
  \E i \in Slots \ {0} :
    /\ Ready(i)
    /\ \E k \in 0..5 : joints[i].K[k] = 1 /\ joints[i].T[k] = 0
    /\ \E k \in 0..5 : joints[i].K[k] = 0 /\ joints[i].T[k] = 1

\* C2: every call that names a catalog type and passes an axis that is not
\* None and not x, y or z raises InvalidAxis.
C2_InvalidAxisRejected ==
  \A i \in Slots :
    (/\ Called(i)
     /\ NamesCatalogType(calls[i].joint_type)
     /\ calls[i].axis # None
     /\ calls[i].axis \notin XYZ)
    => status[i] = "InvalidAxis"

\* C3: a constructed joint holds an axis exactly when its type requires one.
C3_AxisPresentIffRequired ==
  \A i \in Slots : Ready(i) =>
    ((joints[i].axis # None)
       <=> JointTypesLiteral[joints[i].joint_type].axis_required)

\* C4: a call raises UnknownJointType exactly when its joint_type does not
\* spell a catalog key in some letter case, whatever its axis argument is;
\* any other call gets the catalog key as its joint_type.
C4_UnknownJointType ==
  \A i \in Slots : Called(i) =>
    /\ (status[i] = "UnknownJointType")
         <=> ~NamesCatalogType(calls[i].joint_type)
    /\ NamesCatalogType(calls[i].joint_type) =>
         /\ joints[i].joint_type \in DOMAIN JointTypesLiteral
         /\ Spells(calls[i].joint_type, joints[i].joint_type)

\* An unknown type passed together with an axis that is itself invalid.
C4_Witness ==
  \E i \in Slots \ {0} :
    /\ calls[i].joint_type = STeleport
    /\ calls[i].axis = <<"w">>
    /\ status[i] = "UnknownJointType"

\* C5: with no axis, a call that names revolute or prismatic raises
\* MissingAxis and a call that names fixed or fixed_point succeeds.
C5_MissingAxis ==
  \A i \in Slots : (Called(i) /\ calls[i].axis = None) =>
    /\ NamesAxisType(calls[i].joint_type) => status[i] = "MissingAxis"
    /\ NamesNoAxisType(calls[i].joint_type) => Ready(i)

C5_Witness ==
  \E i \in Slots \ {0} :
    /\ calls[i].axis = None
    /\ calls[i].joint_type = UPrismatic
    /\ status[i] = "MissingAxis"

\* C6: a revolute joint built with axis a in x, y, z has K equal to 1 at the
\* rotational index of a and 0 elsewhere, and T the opposite.
C6_Revolute ==
  \A i \in Slots :
    (/\ Called(i)
     /\ Spells(calls[i].joint_type, Revolute)
     /\ calls[i].axis \in XYZ)
    => /\ Ready(i)
       /\ joints[i].K = OneAt(RotIndex(calls[i].axis))
       /\ joints[i].T = ZeroAt(RotIndex(calls[i].axis))

C6_Witness ==
  \E i \in Slots \ {0} :
    /\ calls[i].joint_type = Revolute
    /\ calls[i].axis = AxisZ
    /\ joints[i].K = OneAt(2)
    /\ joints[i].T = ZeroAt(2)

\* C7: a prismatic joint built with axis a in x, y, z has K equal to 1 at
\* the translational index of a and 0 elsewhere, and T the opposite.
C7_Prismatic ==
  \A i \in Slots :
    (/\ Called(i)
     /\ Spells(calls[i].joint_type, Prismatic)
     /\ calls[i].axis \in XYZ)
    => /\ Ready(i)
       /\ joints[i].K = OneAt(TransIndex(calls[i].axis))
       /\ joints[i].T = ZeroAt(TransIndex(calls[i].axis))

C7_Witness ==
  \E i \in Slots \ {0} :
    /\ calls[i].joint_type = Prismatic
    /\ calls[i].axis = AxisX
    /\ joints[i].K = OneAt(3)
    /\ joints[i].T = ZeroAt(3)

\* C8: every constructed fixed or fixed_point joint has K all zero and T
\* all one.
C8_NoAxisTypes ==
  \A i \in Slots :
    (Ready(i) /\ NamesNoAxisType(calls[i].joint_type))
    => /\ joints[i].K = [k \in 0..5 |-> 0]
       /\ joints[i].T = [k \in 0..5 |-> 1]

C8_Witness ==
  \E i \in Slots \ {0} :
    /\ Ready(i)
    /\ calls[i].joint_type = UFixedPoint
    /\ joints[i].K = [k \in 0..5 |-> 0]
    /\ joints[i].T = [k \in 0..5 |-> 1]

\* C9: a construction that raised left both K and T unset, and no object
\* has one of K and T set without the other.
C9_TorsorsAtomic ==
  \A i \in Slots :
    /\ status[i] \in Errors => (joints[i].K = None /\ joints[i].T = None)
    /\ (joints[i].K = None) <=> (joints[i].T = None)

\* The last check of the constructor (the invalid axis) has raised.
C9_Witness ==
  \E i \in Slots \ {0} :
    /\ status[i] = "InvalidAxis"
    /\ joints[i].joint_type = Revolute
    /\ joints[i].K = None
    /\ joints[i].T = None

\* C10: no operation changes the attributes of a constructed joint, its
\* being constructed, or the catalog.
C10_Immutable ==
  [][/\ \A i \in Slots : Ready(i) => (joints'[i] = joints[i] /\ Ready(i)')
     /\ JOINT_TYPES' = JOINT_TYPES
     /\ JOINT_TYPES = JointTypesLiteral]_vars

\* The module-level joint is as built, after another joint was constructed
\* and printed.
C10_Witness ==
  /\ Ready(0)
  /\ joints[0] = ModuleJoint.self
  /\ \E i \in Slots \ {0} : Ready(i) /\ out = PrintTorsorsLines(joints[i])

====
